---- MODULE Spec2Model ----
(***************************************************************************)
(* Model of the bank-cleaner pipeline (src/bank-cleaner): column mapping,  *)
(* amount/date normalisation, categorisation, partitioning into Master /   *)
(* Incoming / Outgoing / eBay views, and the stages of main().             *)
(*                                                                         *)
(* Text is held as TLA+ strings; a missing CSV cell (pandas NaN) is the    *)
(* string NaN, which read_csv itself reads as missing.  A parsed amount is *)
(* a record [nan, v] with v in hundredths; the cells of the pools carry at *)
(* most two fraction digits.  A parsed date is its ISO text or NaT.        *)
(***************************************************************************)
EXTENDS Integers, Sequences, FiniteSets, TLC

VARIABLES
    pc,            \* stage of main() about to run, or "exit" / "done"
    csv_exists,    \* csv_path.exists()
    csv,           \* content of the CSV file
    skip_upload,   \* args.skip_upload, once main has read it
    df_raw,        \* table returned by preview_csv
    mapping,       \* result of ask_column_mapping
    df_clean,      \* result of clean_dataframe
    datasets,      \* master, incoming, outgoing, ebay_outgoing
    files,         \* the four CSV files of the output directory
    results,       \* per-sheet outcome of the upload
    error,         \* message of the error that ended the run, "" if none
    sheets,        \* the worksheets of the target spreadsheet, by title
    calls,         \* the gspread calls issued so far, in order
    arg, ret       \* argument and result of a function applied on its own

vars == <<pc, csv_exists, csv, skip_upload, df_raw, mapping, df_clean,
          datasets, files, results, error, sheets, calls, arg, ret>>

(***************************************************************************)
(* Bounds                                                                  *)
(***************************************************************************)
MaxRows == 3

(***************************************************************************)
(* Text primitives (Python str methods used by the code)                   *)
(***************************************************************************)
NaN == "NaN"
NaT == "NaT"

Char(s, i) == SubSeq(s, i, i)

UpperLetters == "ABCDEFGHIJKLMNOPQRSTUVWXYZ"
LowerLetters == "abcdefghijklmnopqrstuvwxyz"

UpperSet == {Char(UpperLetters, i) : i \in 1..26}

LowerMap ==
    [c \in UpperSet |-> Char(LowerLetters, CHOOSE i \in 1..26 : Char(UpperLetters, i) = c)]

LowerChar(c) == IF c \in UpperSet THEN LowerMap[c] ELSE c

RECURSIVE Lower(_)
Lower(s) == IF s = "" THEN "" ELSE LowerChar(Char(s, 1)) \o Lower(SubSeq(s, 2, Len(s)))

\* Python's `sub in s`
Contains(s, sub) ==
    \E i \in 0..(Len(s) - Len(sub)) : SubSeq(s, i + 1, i + Len(sub)) = sub

RECURSIVE LStrip(_)
LStrip(s) == IF s # "" /\ Char(s, 1) = " " THEN LStrip(SubSeq(s, 2, Len(s))) ELSE s

RECURSIVE RStrip(_)
RStrip(s) == IF s # "" /\ Char(s, Len(s)) = " " THEN RStrip(SubSeq(s, 1, Len(s) - 1)) ELSE s

Strip(s) == RStrip(LStrip(s))

DigitChars == "0123456789"
DigitSet == {Char(DigitChars, i) : i \in 1..10}
DigitMap == [c \in DigitSet |-> (CHOOSE i \in 1..10 : Char(DigitChars, i) = c) - 1]

IsDigit(c) == c \in DigitSet
DigitVal(c) == DigitMap[c]

AllDigits(s) == \A i \in 1..Len(s) : IsDigit(Char(s, i))

RECURSIVE IntOf(_)
IntOf(s) == IF s = "" THEN 0 ELSE 10 * IntOf(SubSeq(s, 1, Len(s) - 1)) + DigitVal(Char(s, Len(s)))

\* f"{x}" for a non-negative integer x
RECURSIVE IntStr(_)
IntStr(n) == IF n < 10 THEN Char(DigitChars, n + 1)
             ELSE IntStr(n \div 10) \o Char(DigitChars, (n % 10) + 1)

(***************************************************************************)
(* clean_amount_column, one cell at a time                                 *)
(***************************************************************************)
Num(n) == [nan |-> FALSE, v |-> n]
NaNf == [nan |-> TRUE, v |-> 0]

\* s.str.replace(r'[$£€¥,]', '', regex=True)
CurrencyChars == {"$", "£", "€", "¥", ","}

RECURSIVE RemoveCurrency(_)
RemoveCurrency(s) ==
    IF s = "" THEN ""
    ELSE (IF Char(s, 1) \in CurrencyChars THEN "" ELSE Char(s, 1))
         \o RemoveCurrency(SubSeq(s, 2, Len(s)))

\* s.str.replace(r'\((.*)\)', r'-\1', regex=True): the leftmost "(" that has a
\* ")" after it, greedy up to the last ")" of the cell.
ParenRewrite(s) ==
    LET opens == {i \in 1..Len(s) : Char(s, i) = "("}
        closes == {j \in 1..Len(s) : Char(s, j) = ")"}
    IN IF opens = {} \/ closes = {} THEN s
       ELSE LET i == CHOOSE x \in opens : \A y \in opens : x <= y
                j == CHOOSE x \in closes : \A y \in closes : x >= y
            IN IF j > i
               THEN SubSeq(s, 1, i - 1) \o "-" \o SubSeq(s, i + 1, j - 1)
                    \o SubSeq(s, j + 1, Len(s))
               ELSE s

\* t matches \d+\.?\d* in full
IsDigitsDotDigits(t) ==
    /\ t # ""
    /\ IsDigit(Char(t, 1))
    /\ \E k \in 1..Len(t) :
          /\ AllDigits(SubSeq(t, 1, k))
          /\ \/ k = Len(t)
             \/ /\ Char(t, k + 1) = "."
                /\ AllDigits(SubSeq(t, k + 2, Len(t)))

\* s.str.replace(r'(\d+\.?\d*)-$', r'-\1', regex=True): leftmost start of a
\* number that runs up to a final "-".
TrailingMinusRewrite(s) ==
    LET n == Len(s)
        starts == {k \in 1..(n - 1) : IsDigitsDotDigits(SubSeq(s, k, n - 1))}
    IN IF n >= 2 /\ Char(s, n) = "-" /\ starts # {}
       THEN LET k == CHOOSE x \in starts : \A y \in starts : x <= y
            IN SubSeq(s, 1, k - 1) \o "-" \o SubSeq(s, k, n - 1)
       ELSE s

\* value in hundredths of the fraction digits fp
FracVal(fp) ==
    IF Len(fp) = 0 THEN 0
    ELSE IF Len(fp) = 1 THEN 10 * DigitVal(Char(fp, 1))
    ELSE 10 * DigitVal(Char(fp, 1)) + DigitVal(Char(fp, 2))

\* digits, optionally one ".", at least one digit
UnsignedValue(t) ==
    LET dots == {i \in 1..Len(t) : Char(t, i) = "."}
    IN IF dots = {}
       THEN IF t # "" /\ AllDigits(t) THEN Num(100 * IntOf(t)) ELSE NaNf
       ELSE LET d == CHOOSE x \in dots : \A y \in dots : x <= y
                ip == SubSeq(t, 1, d - 1)
                fp == SubSeq(t, d + 1, Len(t))
            IN IF AllDigits(ip) /\ AllDigits(fp) /\ Len(ip) + Len(fp) > 0
               THEN Num(100 * IntOf(ip) + FracVal(fp))
               ELSE NaNf

\* pd.to_numeric(s, errors='coerce') on one text cell
ToNumeric(t) ==
    IF t # "" /\ Char(t, 1) = "-"
    THEN LET u == UnsignedValue(SubSeq(t, 2, Len(t)))
         IN IF u.nan THEN NaNf ELSE Num(0 - u.v)
    ELSE IF t # "" /\ Char(t, 1) = "+"
    THEN UnsignedValue(SubSeq(t, 2, Len(t)))
    ELSE UnsignedValue(t)

\* series.astype(str): a missing cell becomes the text "nan"
AsTypeStr(cell) == IF cell = NaN THEN "nan" ELSE cell

clean_amount_column(cell) ==
    ToNumeric(TrailingMinusRewrite(ParenRewrite(RemoveCurrency(AsTypeStr(cell)))))

(***************************************************************************)
(* categorize_transaction                                                  *)
(***************************************************************************)
income_patterns == <<"salary", "wage", "deposit", "transfer in", "refund">>

\* Utilities declared before Gas
expense_categories_UtilitiesFirst == <<
    [cat |-> "Grocery",   pats |-> <<"grocery", "supermarket", "food", "walmart", "target">>],
    [cat |-> "Utilities", pats |-> <<"electric", "gas bill", "water", "internet", "phone">>],
    [cat |-> "Gas",       pats |-> <<"gas", "fuel", "petrol", "shell", "bp", "chevron">>],
    [cat |-> "Dining",    pats |-> <<"restaurant", "cafe", "pizza", "mcdonald", "starbucks">>],
    [cat |-> "Shopping",  pats |-> <<"amazon", "store", "retail", "purchase">> ] >>

expense_categories == <<
    [cat |-> "Grocery",   pats |-> <<"grocery", "supermarket", "food", "walmart", "target">>],
    [cat |-> "Gas",       pats |-> <<"gas", "fuel", "petrol", "shell", "bp", "chevron">>],
    [cat |-> "Utilities", pats |-> <<"electric", "gas bill", "water", "internet", "phone">>],
    [cat |-> "Dining",    pats |-> <<"restaurant", "cafe", "pizza", "mcdonald", "starbucks">>],
    [cat |-> "Shopping",  pats |-> <<"amazon", "store", "retail", "purchase">> ] >>

AnyPattern(text, pats) == \E i \in 1..Len(pats) : Contains(text, pats[i])

RECURSIVE ExpenseLoop(_, _)
ExpenseLoop(details_lower, i) ==
    IF i > Len(expense_categories) THEN "Other"
    ELSE IF AnyPattern(details_lower, expense_categories[i].pats)
    THEN expense_categories[i].cat
    ELSE ExpenseLoop(details_lower, i + 1)

categorize_transaction(details, amount) ==
    LET details_lower == Lower(details)
    IN IF Contains(details_lower, "ebay") THEN "eBay"
       ELSE IF (~amount.nan /\ amount.v > 0) /\ AnyPattern(details_lower, income_patterns)
       THEN "Income"
       ELSE ExpenseLoop(details_lower, 1)

(***************************************************************************)
(* clean_date_column, one cell at a time: pd.to_datetime(errors='coerce',  *)
(* dayfirst=False) on the cells of the pools, which are zero-padded        *)
(* month-first MM/DD/YYYY text, text that is no date, or missing.          *)
(***************************************************************************)
IsLeap(y) == (y % 4 = 0 /\ y % 100 # 0) \/ y % 400 = 0

DaysIn(m, y) ==
    IF m = 2 THEN (IF IsLeap(y) THEN 29 ELSE 28)
    ELSE IF m \in {4, 6, 9, 11} THEN 30 ELSE 31

clean_date_column(cell) ==
    IF /\ cell # NaN
       /\ Len(cell) = 10
       /\ Char(cell, 3) = "/" /\ Char(cell, 6) = "/"
       /\ AllDigits(SubSeq(cell, 1, 2))
       /\ AllDigits(SubSeq(cell, 4, 5))
       /\ AllDigits(SubSeq(cell, 7, 10))
    THEN LET m == IntOf(SubSeq(cell, 1, 2))
             d == IntOf(SubSeq(cell, 4, 5))
             y == IntOf(SubSeq(cell, 7, 10))
         IN IF m \in 1..12 /\ y >= 1 /\ d >= 1 /\ d <= DaysIn(m, y)
            THEN SubSeq(cell, 7, 10) \o "-" \o SubSeq(cell, 1, 2) \o "-" \o SubSeq(cell, 4, 5)
            ELSE NaT
    ELSE NaT

(***************************************************************************)
(* Tables.  A raw table is [cols, rows], a row being the tuple of its      *)
(* cells in column order; its pandas index is the RangeIndex 0..n-1.       *)
(***************************************************************************)
HasCol(df, name) == \E i \in 1..Len(df.cols) : df.cols[i] = name

ColIdx(df, name) == CHOOSE i \in 1..Len(df.cols) : df.cols[i] = name

Cell(df, r, name) == df.rows[r][ColIdx(df, name)]

\* Series.fillna(value) on one cell
FillNa(cell, value) == IF cell = NaN THEN value ELSE cell

(***************************************************************************)
(* find_default_column, ask_column_mapping                                 *)
(***************************************************************************)
RECURSIVE ColumnLoop(_, _, _)
ColumnLoop(columns, term, j) ==
    IF j > Len(columns) THEN ""
    ELSE IF Contains(Lower(columns[j]), term) THEN columns[j]
    ELSE ColumnLoop(columns, term, j + 1)

RECURSIVE TermLoop(_, _, _)
TermLoop(columns, key_terms, i) ==
    IF i > Len(key_terms) THEN ""
    ELSE IF \E j \in 1..Len(columns) : Contains(Lower(columns[j]), key_terms[i])
    THEN ColumnLoop(columns, key_terms[i], 1)
    ELSE TermLoop(columns, key_terms, i + 1)

\* for col in columns: for term in key_terms (columns outermost)
find_default_column_ColumnMajor(columns, key_terms) ==
    LET Hits(j) == \E i \in 1..Len(key_terms) : Contains(Lower(columns[j]), key_terms[i])
        hit == {j \in 1..Len(columns) : Hits(j)}
    IN IF hit = {} THEN "" ELSE columns[CHOOSE j \in hit : \A k \in hit : j <= k]

\* for term in key_terms: for col in columns: if term in col.lower(): return col
find_default_column(columns, key_terms) == TermLoop(columns, key_terms, 1)

column_patterns == [
    date        |-> <<"date", "trans", "time", "posted">>,
    description |-> <<"description", "desc", "memo", "details", "payee", "merchant">>,
    amount      |-> <<"amount", "amt", "value", "debit", "credit", "balance">>,
    category    |-> <<"category", "cat", "type", "class">> ]

Fields == {"date", "description", "amount", "category"}

(***************************************************************************)
(* combine_description_fields, clean_dataframe                             *)
(***************************************************************************)
note_candidates == <<"Note", "note", "Notes", "Memo", "memo", "Reference", "ref">>

PresentCandidates(df) == {i \in 1..Len(note_candidates) : HasCol(df, note_candidates[i])}

combine_description_fields(df, desc_col, r) ==
    LET details == IF HasCol(df, desc_col) THEN FillNa(Cell(df, r, desc_col), "") ELSE ""
        present == PresentCandidates(df)
    IN IF present = {} THEN Strip(details)
       ELSE LET i == CHOOSE x \in present : \A y \in present : x <= y
                additional == FillNa(Cell(df, r, note_candidates[i]), "")
            IN Strip(details \o " " \o additional)

\* a date that cannot be read from a column gets a default, as Amount does
CleanRow_DateDefault(df, map, r) ==
    [ idx      |-> r - 1,
      Date     |-> IF map.date # "" /\ HasCol(df, map.date)
                   THEN clean_date_column(Cell(df, r, map.date))
                   ELSE "1970-01-01",
      Amount   |-> IF map.amount # "" /\ HasCol(df, map.amount)
                   THEN clean_amount_column(Cell(df, r, map.amount))
                   ELSE Num(0),
      Details  |-> combine_description_fields(df, map.description, r),
      Category |-> IF map.category # "" /\ HasCol(df, map.category)
                   THEN FillNa(Cell(df, r, map.category), "Uncategorized")
                   ELSE "Uncategorized" ]

\* the rows of df_clean[final_columns] before dropna; the mapping never names
\* one of the four output columns for another field, so every source column
\* is read as loaded
CleanRow(df, map, r) ==
    [ idx      |-> r - 1,
      Date     |-> IF map.date # "" /\ HasCol(df, map.date)
                   THEN clean_date_column(Cell(df, r, map.date))
                   ELSE NaT,
      Amount   |-> IF map.amount # "" /\ HasCol(df, map.amount)
                   THEN clean_amount_column(Cell(df, r, map.amount))
                   ELSE Num(0),
      Details  |-> combine_description_fields(df, map.description, r),
      Category |-> IF map.category # "" /\ HasCol(df, map.category)
                   THEN FillNa(Cell(df, r, map.category), "Uncategorized")
                   ELSE "Uncategorized" ]

final_columns == <<"Date", "Amount", "Details", "Category">>

\* dropna(subset=['Date'])
DropNa_DateOnly(rows) ==
    LET Keep(row) == row.Date # NaT
    IN SelectSeq(rows, Keep)

\* dropna(subset=['Date', 'Amount'])
DropNa(rows) ==
    LET Keep(row) == row.Date # NaT /\ ~row.Amount.nan
    IN SelectSeq(rows, Keep)

clean_dataframe(df, map) ==
    [ cols |-> final_columns,
      rows |-> DropNa([r \in 1..Len(df.rows) |-> CleanRow(df, map, r)]) ]

(***************************************************************************)
(* filter_transactions                                                     *)
(***************************************************************************)
\* df['Master_Row'] = df.index + 2 on the index the table came with
WithMasterRow_KeepIndex(rows) ==
    [k \in 1..Len(rows) |->
        [ idx |-> rows[k].idx, Date |-> rows[k].Date, Amount |-> rows[k].Amount,
          Details |-> rows[k].Details, Category |-> rows[k].Category,
          Master_Row |-> rows[k].idx + 2 ]]

\* df.reset_index(drop=True); df['Master_Row'] = df.index + 2
WithMasterRow(rows) ==
    [k \in 1..Len(rows) |->
        [ idx |-> k - 1, Date |-> rows[k].Date, Amount |-> rows[k].Amount,
          Details |-> rows[k].Details, Category |-> rows[k].Category,
          Master_Row |-> (k - 1) + 2 ]]

\* if 'Category' not in df.columns or df['Category'].isna().all()
AutoCategorize(df, rows) ==
    IF (~HasCol(df, "Category")) \/ (\A k \in 1..Len(rows) : rows[k].Category = NaN)
    THEN [k \in 1..Len(rows) |->
            [rows[k] EXCEPT !.Category = categorize_transaction(rows[k].Details, rows[k].Amount)]]
    ELSE rows

\* the reference built from the 0-based position instead of Master_Row
SourceOf_Position(x) == "=Master!A" \o IntStr(x - 2)

\* filtered_df['Source'] = filtered_df['Master_Row'].apply(lambda x: f"=Master!A{x}")
SourceOf(x) == "=Master!A" \o IntStr(x)

AddSource(cols, rows) ==
    IF Len(rows) > 0
    THEN [ cols |-> Append(cols, "Source"),
           rows |-> [k \in 1..Len(rows) |->
                       [ idx |-> rows[k].idx, Date |-> rows[k].Date,
                         Amount |-> rows[k].Amount, Details |-> rows[k].Details,
                         Category |-> rows[k].Category,
                         Master_Row |-> rows[k].Master_Row,
                         Source |-> SourceOf(rows[k].Master_Row) ]] ]
    ELSE [cols |-> cols, rows |-> rows]

\* str.contains('ebay', case=False, na=False)
EbayMask(row) == row.Details # NaN /\ Contains(Lower(row.Details), "ebay")

\* df['Amount'] >= 0
IsIncoming_NonNegative(row) == ~row.Amount.nan /\ row.Amount.v >= 0

\* df['Amount'] > 0
IsIncoming(row) == ~row.Amount.nan /\ row.Amount.v > 0

\* df['Amount'] < 0
IsOutgoing(row) == ~row.Amount.nan /\ row.Amount.v < 0

\* ebay_mask alone
IsEbayOutgoing_AnySign(row) == EbayMask(row)

\* ebay_mask & (df['Amount'] < 0)
IsEbayOutgoing(row) == EbayMask(row) /\ (~row.Amount.nan /\ row.Amount.v < 0)

filter_transactions(df) ==
    LET rows == AutoCategorize(df, WithMasterRow(df.rows))
        cols == IF HasCol(df, "Category")
                THEN Append(df.cols, "Master_Row")
                ELSE df.cols \o <<"Master_Row", "Category">>
    IN [ master        |-> [cols |-> cols, rows |-> rows],
         incoming      |-> AddSource(cols, SelectSeq(rows, IsIncoming)),
         outgoing      |-> AddSource(cols, SelectSeq(rows, IsOutgoing)),
         ebay_outgoing |-> AddSource(cols, SelectSeq(rows, IsEbayOutgoing)) ]

(***************************************************************************)
(* save_datasets_to_csv                                                    *)
(***************************************************************************)
\* df.drop(columns=['Master_Row'], errors='ignore')
DropMasterRow(cols) ==
    LET Keep(c) == c # "Master_Row"
    IN SelectSeq(cols, Keep)

\* an empty dataset is not written
ToCsv_SkipEmpty(df) ==
    LET header == DropMasterRow(df.cols)
    IN [ written |-> Len(df.rows) > 0,
         header  |-> IF Len(df.rows) > 0 THEN header ELSE <<>>,
         lines   |-> [k \in 1..Len(df.rows) |->
                        [i \in 1..Len(header) |-> df.rows[k][header[i]]]] ]

\* export_df.to_csv(path, index=False): header line, then one line per row
ToCsv(df) ==
    LET header == DropMasterRow(df.cols)
    IN [ written |-> TRUE,
         header  |-> header,
         lines   |-> [k \in 1..Len(df.rows) |->
                        [i \in 1..Len(header) |-> df.rows[k][header[i]]]] ]

NoFile == [written |-> FALSE, header |-> <<>>, lines |-> <<>>]

save_datasets_to_csv(ds) ==
    [ master   |-> ToCsv(ds.master),
      incoming |-> ToCsv(ds.incoming),
      outgoing |-> ToCsv(ds.outgoing),
      ebay     |-> ToCsv(ds.ebay_outgoing) ]

(***************************************************************************)
(* SheetsManager.  The spreadsheet maps a sheet title to [exists, cells],  *)
(* cells being the grid of entered values, row by row.  A remote state st  *)
(* is [sheets, calls].  fault names the gspread call that raises during    *)
(* the upload of one sheet ("" if none); a call that raises changes        *)
(* nothing.  _format_worksheet touches formats only and swallows its own   *)
(* exceptions.                                                             *)
(***************************************************************************)
SheetNames == <<"Master", "Incoming", "Outgoing", "eBay_Outgoing">>

Absent == [exists |-> FALSE, cells |-> <<>>]

Blank == [exists |-> TRUE, cells |-> <<>>]

Faults == {"", "open_by_key", "clear", "add_worksheet", "update"}

Call(st, op, sheet_name) ==
    [st EXCEPT !.calls = Append(@, [op |-> op, sheet |-> sheet_name])]

\* the existing worksheet is returned as it is
create_or_clear_worksheet_GetOnly(st, sheet_name, fault) ==
    LET opened == Call(st, "open_by_key", sheet_name)
    IN IF fault = "open_by_key" THEN [st |-> opened, raised |-> TRUE]
       ELSE IF opened.sheets[sheet_name].exists
       THEN [st |-> opened, raised |-> FALSE]
       ELSE LET a == Call(opened, "add_worksheet", sheet_name)
            IN IF fault = "add_worksheet" THEN [st |-> a, raised |-> TRUE]
               ELSE [st |-> [a EXCEPT !.sheets[sheet_name] = Blank], raised |-> FALSE]

\* worksheet(sheet_name).clear(), or add_worksheet on WorksheetNotFound;
\* any other exception is printed and raised again
create_or_clear_worksheet(st, sheet_name, fault) ==
    LET opened == Call(st, "open_by_key", sheet_name)
    IN IF fault = "open_by_key" THEN [st |-> opened, raised |-> TRUE]
       ELSE IF opened.sheets[sheet_name].exists
       THEN LET c == Call(opened, "clear", sheet_name)
            IN IF fault = "clear" THEN [st |-> c, raised |-> TRUE]
               ELSE [st |-> [c EXCEPT !.sheets[sheet_name].cells = <<>>], raised |-> FALSE]
       ELSE LET a == Call(opened, "add_worksheet", sheet_name)
            IN IF fault = "add_worksheet" THEN [st |-> a, raised |-> TRUE]
               ELSE [st |-> [a EXCEPT !.sheets[sheet_name] = Blank], raised |-> FALSE]

\* str(x) of a float held in hundredths
AmountStr(a) ==
    LET m == IF a.v < 0 THEN 0 - a.v ELSE a.v
        f == m % 100
    IN (IF a.v < 0 THEN "-" ELSE "") \o IntStr(m \div 100) \o "." \o
       (IF f % 10 = 0 THEN IntStr(f \div 10)
        ELSE IF f < 10 THEN "0" \o IntStr(f) ELSE IntStr(f))

\* one cell of df.fillna('').astype(str)
CellStr(col, x) ==
    IF col = "Amount" THEN (IF x.nan THEN "" ELSE AmountStr(x))
    ELSE IF col = "Master_Row" THEN IntStr(x)
    ELSE IF x \in {NaN, NaT} THEN "" ELSE x

\* header = list(df.columns) without Master_Row
AllData_NoMasterRow(df) ==
    LET header == DropMasterRow(df.cols)
    IN <<header>> \o
       [k \in 1..Len(df.rows) |->
           [i \in 1..Len(header) |-> CellStr(header[i], df.rows[k][header[i]])]]

\* all_data = [list(df.columns)] + df.fillna('').astype(str).values.tolist()
AllData(df) ==
    <<df.cols>> \o
    [k \in 1..Len(df.rows) |->
        [i \in 1..Len(df.cols) |-> CellStr(df.cols[i], df.rows[k][df.cols[i]])]]

\* worksheet.update(values) from A1: cells outside the written range stay
Update(cells, values) ==
    LET Max(a, b) == IF a > b THEN a ELSE b
    IN [i \in 1..Max(Len(cells), Len(values)) |->
          IF i > Len(values) THEN cells[i]
          ELSE IF i > Len(cells) THEN values[i]
          ELSE values[i] \o SubSeq(cells[i], Len(values[i]) + 1, Len(cells[i]))]

\* df.empty
IsEmpty(df) == Len(df.rows) = 0 \/ Len(df.cols) = 0

\* the body of upload_dataframe_to_sheet without its try/except
upload_dataframe_to_sheet_NoCatch(st, sheet_name, df, overwrite, fault) ==
    IF IsEmpty(df) THEN [st |-> st, success |-> FALSE, raised |-> FALSE]
    ELSE LET w == create_or_clear_worksheet(st, sheet_name, fault)
         IN IF w.raised THEN [st |-> w.st, success |-> FALSE, raised |-> TRUE]
            ELSE LET c == IF overwrite THEN Call(w.st, "clear", sheet_name) ELSE w.st
                     cleared == IF overwrite
                                THEN [c EXCEPT !.sheets[sheet_name].cells = <<>>]
                                ELSE c
                 IN IF overwrite /\ fault = "clear"
                    THEN [st |-> c, success |-> FALSE, raised |-> TRUE]
                    ELSE LET u == Call(cleared, "update", sheet_name)
                         IN IF fault = "update"
                            THEN [st |-> u, success |-> FALSE, raised |-> TRUE]
                            ELSE [st |-> [u EXCEPT !.sheets[sheet_name].cells =
                                                      Update(@, AllData(df))],
                                  success |-> TRUE, raised |-> FALSE]

\* returns False for an empty table and on any exception, True after update
upload_dataframe_to_sheet(st, sheet_name, df, overwrite, fault) ==
    IF IsEmpty(df) THEN [st |-> st, success |-> FALSE, raised |-> FALSE]
    ELSE LET w == create_or_clear_worksheet(st, sheet_name, fault)
         IN IF w.raised THEN [st |-> w.st, success |-> FALSE, raised |-> FALSE]
            ELSE LET c == IF overwrite THEN Call(w.st, "clear", sheet_name) ELSE w.st
                     cleared == IF overwrite
                                THEN [c EXCEPT !.sheets[sheet_name].cells = <<>>]
                                ELSE c
                 IN IF overwrite /\ fault = "clear"
                    THEN [st |-> c, success |-> FALSE, raised |-> FALSE]
                    ELSE LET u == Call(cleared, "update", sheet_name)
                         IN IF fault = "update"
                            THEN [st |-> u, success |-> FALSE, raised |-> FALSE]
                            ELSE [st |-> [u EXCEPT !.sheets[sheet_name].cells =
                                                      Update(@, AllData(df))],
                                  success |-> TRUE, raised |-> FALSE]

\* one pass of "for sheet_name, df in datasets.items()"
UploadIteration(st, item, overwrite, fault) ==
    IF IsEmpty(item.df) THEN [st |-> st, success |-> FALSE, raised |-> FALSE]
    ELSE upload_dataframe_to_sheet(st, item.name, item.df, overwrite, fault)

\* acc is [st, results, raised]; an exception leaving a pass ends the loop
RECURSIVE UploadLoop(_, _, _, _, _)
UploadLoop(acc, ds, overwrite, faults, i) ==
    IF i > Len(ds) \/ acc.raised THEN acc
    ELSE LET r == UploadIteration(acc.st, ds[i], overwrite, faults[ds[i].name])
         IN UploadLoop(
              [ st      |-> r.st,
                results |-> IF r.raised THEN acc.results
                            ELSE Append(acc.results,
                                        [sheet |-> ds[i].name, success |-> r.success]),
                raised  |-> r.raised ],
              ds, overwrite, faults, i + 1)

\* ds is the dict as the sequence of its items, faults the fault of each sheet
upload_multiple_sheets(st, ds, overwrite, faults) ==
    UploadLoop([st |-> st, results |-> <<>>, raised |-> FALSE], ds, overwrite, faults, 1)

(***************************************************************************)
(* Inputs of a run                                                         *)
(***************************************************************************)
\* header layouts: column name and the field of a pool row that fills it
HeaderPool == {
    << [name |-> "Date", src |-> "d"], [name |-> "Description", src |-> "t"],
       [name |-> "Amount", src |-> "a"] >>,
    << [name |-> "Date", src |-> "d"], [name |-> "Description", src |-> "t"],
       [name |-> "Amount", src |-> "a"], [name |-> "Category", src |-> "c"],
       [name |-> "Memo", src |-> "m"] >>,
    << [name |-> "Posted", src |-> "d"], [name |-> "Payee", src |-> "t"],
       [name |-> "Memo", src |-> "m"] >>,
    << [name |-> "Description", src |-> "t"], [name |-> "Amount", src |-> "a"],
       [name |-> "Type", src |-> "c"] >> }

RowPool == {
    [d |-> "01/15/2024", t |-> "EBAY PURCHASE", a |-> "-45.00",    c |-> NaN,    m |-> NaN],
    [d |-> "01/16/2024", t |-> "eBay refund",   a |-> "$2,000.00", c |-> "Pay",  m |-> "ref 7"],
    [d |-> "01/17/2024", t |-> "COFFEE SHOP",   a |-> "(100.00)",  c |-> NaN,    m |-> NaN],
    [d |-> "02/30/2024", t |-> "gas bill",      a |-> "12.34-",    c |-> "Home", m |-> " x"],
    [d |-> "01/19/2024", t |-> NaN,             a |-> "0.00",      c |-> NaN,    m |-> NaN],
    [d |-> "01/20/2024", t |-> "Pizza ebay",    a |-> "abc",       c |-> "Food", m |-> NaN] }

\* lines 40-42 of ask_column_mapping, tabulated once per header layout
HeaderCols == {[i \in 1..Len(h) |-> h[i].name] : h \in HeaderPool}

InferredDefaults ==
    [cols \in HeaderCols |->
        [field \in Fields |-> find_default_column(cols, column_patterns[field])]]

\* the typed line taken as it is, without .strip()
ask_column_mapping_NoStrip(df, vals) ==
    LET mapping0 == InferredDefaults[df.cols]
    IN [field \in Fields |->
          LET val == vals[field]
          IN IF val # "" THEN val ELSE mapping0[field]]

\* vals[field] is the line typed at the prompt of that field
ask_column_mapping(df, vals) ==
    LET mapping0 == InferredDefaults[df.cols]
    IN [field \in Fields |->
          LET val == Strip(vals[field])
          IN IF val # "" THEN val ELSE mapping0[field]]

MkTable(header, recs) ==
    [ cols |-> [i \in 1..Len(header) |-> header[i].name],
      rows |-> [r \in 1..Len(recs) |-> [i \in 1..Len(header) |-> recs[r][header[i].src]]] ]

CsvPool ==
    { MkTable(h, recs) : h \in HeaderPool,
                         recs \in UNION {[1..n -> RowPool] : n \in 0..MaxRows} }

\* lines typed at the four column prompts of one run: Enter at every prompt,
\* blanks at every prompt, or a name that is no column at one prompt
Typed(field, text) == [f \in Fields |-> IF f = field THEN text ELSE ""]

InputPool ==
    { [f \in Fields |-> ""], [f \in Fields |-> "  "] }
    \cup { Typed(f, " Bogus ") : f \in Fields }

EmptyTable == [cols |-> <<>>, rows |-> <<>>]

NoDatasets == [ master |-> EmptyTable, incoming |-> EmptyTable,
                outgoing |-> EmptyTable, ebay_outgoing |-> EmptyTable ]

NoFiles == [master |-> NoFile, incoming |-> NoFile, outgoing |-> NoFile, ebay |-> NoFile]

NoMapping == [field \in Fields |-> ""]

\* no spreadsheet chosen yet, or a spreadsheet without any of the four sheets
NoSheets == [name \in {SheetNames[i] : i \in 1..Len(SheetNames)} |-> Absent]

\* a sheet left by an earlier upload; wider than any table uploaded here
OldSheet == [exists |-> TRUE,
             cells |-> << <<"Date", "Amount", "Details", "Category", "Master_Row", "Source", "Old">>,
                          <<"2023-12-31", "1.0", "old row", "Other", "2", "=Master!A2", "old">> >>]

\* the spreadsheet chosen in step 8: one uploaded to before, whose Outgoing
\* sheet has been deleted since, so that sheets are both cleared and created
RemotePool ==
    { [name \in DOMAIN NoSheets |-> IF name = "Outgoing" THEN Absent ELSE OldSheet] }

\* no call raises, or one call raises during the upload of one sheet
NoFaults == [name \in DOMAIN NoSheets |-> ""]

FaultPool ==
    { NoFaults,
      [NoFaults EXCEPT !["Master"] = "update"],
      [NoFaults EXCEPT !["Incoming"] = "open_by_key"] }

(***************************************************************************)
(* main()                                                                  *)
(***************************************************************************)
Init ==
    /\ pc = "start"
    /\ csv_exists \in BOOLEAN
    /\ csv \in (IF csv_exists THEN CsvPool ELSE {EmptyTable})
    /\ skip_upload = FALSE
    /\ df_raw = EmptyTable
    /\ mapping = NoMapping
    /\ df_clean = EmptyTable
    /\ datasets = NoDatasets
    /\ files = NoFiles
    /\ results = <<>>
    /\ error = ""
    /\ sheets = NoSheets
    /\ calls = <<>>
    /\ arg = ""
    /\ ret = ""

\* sys.exit(1) after printing msg
Exit(msg) == pc' = "exit" /\ error' = msg

\* if not csv_path.exists(): ... sys.exit(1)
ValidateInput ==
    /\ pc = "start"
    /\ IF ~csv_exists
       THEN Exit("CSV file not found")
       ELSE pc' = "load" /\ error' = error
    /\ UNCHANGED <<sheets, calls, csv_exists, csv, skip_upload, df_raw, mapping, df_clean,
                   datasets, files, results, arg, ret>>

\* Step 1: df_raw = preview_csv(csv_path); if df_raw.empty: sys.exit(1)
LoadCsv ==
    /\ pc = "load"
    /\ df_raw' = csv
    /\ IF Len(csv.rows) = 0 \/ Len(csv.cols) = 0
       THEN Exit("CSV file is empty or could not be read")
       ELSE pc' = "map" /\ error' = error
    /\ UNCHANGED <<sheets, calls, csv_exists, csv, skip_upload, mapping, df_clean,
                   datasets, files, results, arg, ret>>

\* Step 2 without the check of mapping['amount']
ColumnMapping_NoAmountCheck ==
    /\ pc = "map"
    /\ \E vals \in InputPool :
          /\ mapping' = ask_column_mapping(df_raw, vals)
          /\ pc' = "clean" /\ error' = error
    /\ UNCHANGED <<sheets, calls, csv_exists, csv, skip_upload, df_raw, df_clean,
                   datasets, files, results, arg, ret>>

\* Step 2: mapping = ask_column_mapping(df_raw); if not mapping['amount']: sys.exit(1)
ColumnMapping ==
    /\ pc = "map"
    /\ \E vals \in InputPool :
          /\ mapping' = ask_column_mapping(df_raw, vals)
          /\ IF mapping'.amount = ""
             THEN Exit("Amount column is required")
             ELSE pc' = "clean" /\ error' = error
    /\ UNCHANGED <<sheets, calls, csv_exists, csv, skip_upload, df_raw, df_clean,
                   datasets, files, results, arg, ret>>

\* the cleaned table is written to cleaned_master.csv before it is tested
CleanData_SaveFirst ==
    /\ pc = "clean"
    /\ df_clean' = clean_dataframe(df_raw, mapping)
    /\ files' = [files EXCEPT !.master = ToCsv(df_clean')]
    /\ IF Len(df_clean'.rows) = 0
       THEN Exit("No valid data after cleaning")
       ELSE pc' = "filter" /\ error' = error
    /\ UNCHANGED <<sheets, calls, csv_exists, csv, skip_upload, df_raw, mapping,
                   datasets, results, arg, ret>>

\* Step 3: df_clean = clean_dataframe(df_raw, mapping); if df_clean.empty: sys.exit(1)
CleanData ==
    /\ pc = "clean"
    /\ df_clean' = clean_dataframe(df_raw, mapping)
    /\ IF Len(df_clean'.rows) = 0
       THEN Exit("No valid data after cleaning")
       ELSE pc' = "filter" /\ error' = error
    /\ UNCHANGED <<sheets, calls, csv_exists, csv, skip_upload, df_raw, mapping,
                   datasets, files, results, arg, ret>>

\* Step 5: master, incoming, outgoing, ebay_outgoing = filter_transactions(df_clean)
FilterData ==
    /\ pc = "filter"
    /\ datasets' = filter_transactions(df_clean)
    /\ pc' = "save"
    /\ UNCHANGED <<sheets, calls, csv_exists, csv, skip_upload, df_raw, mapping, df_clean,
                   files, results, error, arg, ret>>

\* Step 6: save_datasets_to_csv(...); if args.skip_upload: return.  The flag
\* is read here only; its value is drawn where it is read.
SaveCsv ==
    /\ pc = "save"
    /\ files' = save_datasets_to_csv(datasets)
    /\ \E flag \in BOOLEAN :
          /\ skip_upload' = flag
          /\ pc' = IF flag THEN "done" ELSE "auth"
    /\ UNCHANGED <<sheets, calls, csv_exists, csv, df_raw, mapping, df_clean,
                   datasets, results, error, arg, ret>>

\* Step 7: get_credentials(), SheetsManager(creds); on an exception: return.
\* Step 8: the spreadsheet is chosen; without access to it: return
Authenticate ==
    /\ pc = "auth"
    /\ \E ok \in BOOLEAN :
          IF ok
          THEN \E remote \in RemotePool : sheets' = remote /\ pc' = "upload"
          ELSE sheets' = sheets /\ pc' = "done"
    /\ UNCHANGED <<calls, csv_exists, csv, skip_upload, df_raw, mapping, df_clean,
                   datasets, files, results, error, arg, ret>>

SheetData(ds, name) ==
    IF name = "Master" THEN ds.master
    ELSE IF name = "Incoming" THEN ds.incoming
    ELSE IF name = "Outgoing" THEN ds.outgoing
    ELSE ds.ebay_outgoing

\* datasets / non_empty_datasets of main, as the sequence of the dict's items
DatasetItems(ds) ==
    [i \in 1..Len(SheetNames) |-> [name |-> SheetNames[i], df |-> SheetData(ds, SheetNames[i])]]

NonEmptyItems(ds) == SelectSeq(DatasetItems(ds), LAMBDA item : ~IsEmpty(item.df))

\* interactive_sheet_selection: "a" (or an invalid choice) takes every item,
\* "s" the items answered with y: here the first one only, or none
SelectionPool(items) == {items, SubSeq(items, 1, 1), <<>>}

\* Steps 9-10: the non-empty datasets, the user's selection among them, and
\* upload_multiple_sheets over the selection with args.overwrite (always True)
UploadSheets ==
    /\ pc = "upload"
    /\ \E selected \in SelectionPool(NonEmptyItems(datasets)), faults \in FaultPool :
          IF Len(selected) = 0
          THEN /\ pc' = "done"
               /\ UNCHANGED <<sheets, calls, results, error>>
          ELSE LET r == upload_multiple_sheets([sheets |-> sheets, calls |-> calls],
                                               selected, TRUE, faults)
               IN /\ sheets' = r.st.sheets
                  /\ calls' = r.st.calls
                  /\ IF r.raised
                     THEN Exit("Unexpected error") /\ results' = results
                     ELSE pc' = "done" /\ results' = r.results /\ error' = error
    /\ UNCHANGED <<csv_exists, csv, skip_upload, df_raw, mapping, df_clean,
                   datasets, files, arg, ret>>

\* the first k files of save_datasets_to_csv's loop are written
PartialFiles(ds, k) ==
    LET all == save_datasets_to_csv(ds)
        order == <<"master", "incoming", "outgoing", "ebay">>
    IN [name \in DOMAIN all |->
          IF \E i \in 1..k : order[i] = name THEN all[name] ELSE NoFile]

\* except KeyboardInterrupt / except Exception around steps 1-11: the stage
\* under way is abandoned where it stands, a message is printed, sys.exit(1).
\* Ctrl-C passes through the except Exception of upload_dataframe_to_sheet.
Interrupted ==
    /\ pc \in {"load", "map", "clean", "filter", "save", "auth", "upload"}
    /\ IF pc = "save"
       THEN /\ \E k \in 0..3 : files' = PartialFiles(datasets, k)
            /\ UNCHANGED <<sheets, calls>>
       ELSE IF pc = "upload"
       THEN /\ \E selected \in SelectionPool(NonEmptyItems(datasets)) :
                 \E j \in 0..Len(selected) :
                    /\ j < Len(selected) \/ j = 0
                    /\ LET r == upload_multiple_sheets([sheets |-> sheets, calls |-> calls],
                                                       SubSeq(selected, 1, j), TRUE, NoFaults)
                       IN sheets' = r.st.sheets /\ calls' = r.st.calls
            /\ files' = files
       ELSE UNCHANGED <<files, sheets, calls>>
    /\ \E msg \in {"Operation cancelled by user", "Unexpected error"} : Exit(msg)
    /\ UNCHANGED <<csv_exists, csv, skip_upload, df_raw, mapping, df_clean,
                   datasets, results, arg, ret>>

Next ==
    \/ ValidateInput
    \/ LoadCsv
    \/ ColumnMapping
    \/ CleanData
    \/ FilterData
    \/ SaveCsv
    \/ Authenticate
    \/ UploadSheets
    \/ Interrupted

Spec == Init /\ [][Next]_vars

(***************************************************************************)
(* categorize_transaction applied on its own                               *)
(***************************************************************************)
MaxWords == 2

WordPool == { "EBAY", "eBay", "Salary", "refund", "Transfer In", "grocery",
              "Target", "gas bill", "Shell", "water", "PIZZA", "Store", "coffee" }

RECURSIVE Join(_)
Join(ws) == IF Len(ws) = 0 THEN ""
            ELSE IF Len(ws) = 1 THEN ws[1]
            ELSE ws[1] \o " " \o Join(Tail(ws))

DetailsPool == { Join(ws) : ws \in UNION {[1..n -> WordPool] : n \in 0..MaxWords} }

AmountPool == { Num(0 - 4500), Num(0), Num(200000) }

InitCategorize ==
    /\ pc = "call"
    /\ arg \in [details : DetailsPool, amount : AmountPool]
    /\ ret = ""
    /\ csv_exists = FALSE /\ csv = EmptyTable /\ skip_upload = FALSE
    /\ df_raw = EmptyTable /\ mapping = NoMapping /\ df_clean = EmptyTable
    /\ datasets = NoDatasets /\ files = NoFiles /\ results = <<>> /\ error = ""
    /\ sheets = NoSheets /\ calls = <<>>

CallCategorize ==
    /\ pc = "call"
    /\ ret' = categorize_transaction(arg.details, arg.amount)
    /\ pc' = "returned"
    /\ UNCHANGED <<sheets, calls, csv_exists, csv, skip_upload, df_raw, mapping, df_clean,
                   datasets, files, results, error, arg>>

NextCategorize == CallCategorize

SpecCategorize == InitCategorize /\ [][NextCategorize]_vars

(***************************************************************************)
(* clean_amount_column applied on its own                                  *)
(***************************************************************************)
MaxTokens == 3

TokenPool == { "(", ")", "-", "+", "$", ",", ".", "5", "12", "x" }

RECURSIVE Concat(_)
Concat(ts) == IF Len(ts) = 0 THEN "" ELSE ts[1] \o Concat(Tail(ts))

\* at most two digits follow a "."
TwoFractionDigits(s) ==
    \A i \in 1..Len(s) :
        Char(s, i) = "." => ~(i + 3 <= Len(s) /\ AllDigits(SubSeq(s, i + 1, i + 3)))

CellPool ==
    { c \in { Concat(ts) : ts \in UNION {[1..n -> TokenPool] : n \in 0..MaxTokens} } :
        TwoFractionDigits(RemoveCurrency(c)) }

InitAmount ==
    /\ pc = "call"
    /\ arg \in CellPool
    /\ ret = NaNf
    /\ csv_exists = FALSE /\ csv = EmptyTable /\ skip_upload = FALSE
    /\ df_raw = EmptyTable /\ mapping = NoMapping /\ df_clean = EmptyTable
    /\ datasets = NoDatasets /\ files = NoFiles /\ results = <<>> /\ error = ""
    /\ sheets = NoSheets /\ calls = <<>>

CallCleanAmount ==
    /\ pc = "call"
    /\ ret' = clean_amount_column(arg)
    /\ pc' = "returned"
    /\ UNCHANGED <<sheets, calls, csv_exists, csv, skip_upload, df_raw, mapping, df_clean,
                   datasets, files, results, error, arg>>

NextAmount == CallCleanAmount

SpecAmount == InitAmount /\ [][NextAmount]_vars

(***************************************************************************)
(* find_default_column applied on its own                                  *)
(***************************************************************************)
MaxCols == 3

NamePool == { "Trans Date", "Posted", "Memo", "Description", "Amt",
              "Credit Amount", "Type", "Category" }

ColumnsPool == UNION {[1..n -> NamePool] : n \in 0..MaxCols}

InitFind ==
    /\ pc = "call"
    /\ arg \in [columns : ColumnsPool, field : Fields]
    /\ ret = ""
    /\ csv_exists = FALSE /\ csv = EmptyTable /\ skip_upload = FALSE
    /\ df_raw = EmptyTable /\ mapping = NoMapping /\ df_clean = EmptyTable
    /\ datasets = NoDatasets /\ files = NoFiles /\ results = <<>> /\ error = ""
    /\ sheets = NoSheets /\ calls = <<>>

\* mapping[field] = find_default_column(columns, column_patterns[field])
CallFindDefault ==
    /\ pc = "call"
    /\ ret' = find_default_column(arg.columns, column_patterns[arg.field])
    /\ pc' = "returned"
    /\ UNCHANGED <<sheets, calls, csv_exists, csv, skip_upload, df_raw, mapping, df_clean,
                   datasets, files, results, error, arg>>

NextFind == CallFindDefault

SpecFind == InitFind /\ [][NextFind]_vars

(***************************************************************************)
(* ask_column_mapping applied on its own                                   *)
(***************************************************************************)
\* a line typed at one prompt: Enter, blanks, a column name, another name
EntryPool == { "", "  ", " Amount ", "Memo", "Bogus" }

InitAsk ==
    /\ pc = "call"
    /\ arg \in [cols : HeaderCols, vals : [Fields -> EntryPool]]
    /\ ret = NoMapping
    /\ csv_exists = FALSE /\ csv = EmptyTable /\ skip_upload = FALSE
    /\ df_raw = EmptyTable /\ mapping = NoMapping /\ df_clean = EmptyTable
    /\ datasets = NoDatasets /\ files = NoFiles /\ results = <<>> /\ error = ""
    /\ sheets = NoSheets /\ calls = <<>>

CallAskColumnMapping ==
    /\ pc = "call"
    /\ ret' = ask_column_mapping([cols |-> arg.cols, rows |-> <<>>], arg.vals)
    /\ pc' = "returned"
    /\ UNCHANGED <<sheets, calls, csv_exists, csv, skip_upload, df_raw, mapping, df_clean,
                   datasets, files, results, error, arg>>

NextAsk == CallAskColumnMapping

SpecAsk == InitAsk /\ [][NextAsk]_vars

(***************************************************************************)
(* SheetsManager applied on its own: one call of upload_dataframe_to_sheet *)
(* ("call_one"), or upload_multiple_sheets pass by pass ("loop").  arg is  *)
(* [datasets, overwrite, faults, remote], remote being the spreadsheet as  *)
(* the call found it.                                                      *)
(***************************************************************************)
MaxSheetRows == 2

MasterCols == <<"Date", "Amount", "Details", "Category", "Master_Row">>

\* the k-th row of a table handed to the uploader
SheetRow(k) ==
    [ idx        |-> k - 1,
      Date       |-> "2024-01-1" \o IntStr(k),
      Amount     |-> <<Num(0 - 4500), Num(1234), Num(5), Num(200000)>>[((k - 1) % 4) + 1],
      Details    |-> IF k % 2 = 1 THEN "EBAY PURCHASE" ELSE "",
      Category   |-> "Uncategorized",
      Master_Row |-> k + 1,
      Source     |-> SourceOf(k + 1) ]

\* tables of 0..MaxSheetRows rows, without and with the Source column
TablePool ==
    { [cols |-> cols, rows |-> [k \in 1..n |-> SheetRow(k)]] :
        cols \in {MasterCols, Append(MasterCols, "Source")}, n \in 0..MaxSheetRows }

ItemPool(name) == { [name |-> name, df |-> df] : df \in TablePool }

\* the dict handed to upload_multiple_sheets, as the sequence of its items
DatasetsPool ==
    {<<>>}
    \cup { <<m>> : m \in ItemPool("Master") }
    \cup { <<m, i>> : m \in ItemPool("Master"), i \in ItemPool("Incoming") }
    \cup { <<i, m>> : m \in ItemPool("Master"), i \in ItemPool("Incoming") }

SheetFaults ==
    { [NoFaults EXCEPT !["Master"] = f, !["Incoming"] = g] : f \in Faults, g \in Faults }

SheetRemotes ==
    { [NoSheets EXCEPT !["Master"] = a, !["Incoming"] = b] :
        a \in {Absent, OldSheet}, b \in {Absent, OldSheet} }

InitSheets ==
    /\ pc \in {"call_one", "loop"}
    /\ arg \in [datasets : DatasetsPool, overwrite : BOOLEAN,
                faults : SheetFaults, remote : SheetRemotes]
    /\ (pc = "call_one") => Len(arg.datasets) = 1
    /\ sheets = arg.remote
    /\ calls = <<>>
    /\ results = <<>>
    /\ ret = FALSE
    /\ csv_exists = FALSE /\ csv = EmptyTable /\ skip_upload = FALSE
    /\ df_raw = EmptyTable /\ mapping = NoMapping /\ df_clean = EmptyTable
    /\ datasets = NoDatasets /\ files = NoFiles /\ error = ""

\* success = upload_dataframe_to_sheet(spreadsheet_id, sheet_name, df, overwrite)
CallUploadOne ==
    /\ pc = "call_one"
    /\ LET item == arg.datasets[1]
           r == upload_dataframe_to_sheet([sheets |-> sheets, calls |-> calls], item.name,
                                          item.df, arg.overwrite, arg.faults[item.name])
       IN /\ sheets' = r.st.sheets
          /\ calls' = r.st.calls
          /\ IF r.raised THEN pc' = "raised" /\ ret' = ret
             ELSE pc' = "returned" /\ ret' = r.success
    /\ UNCHANGED <<csv_exists, csv, skip_upload, df_raw, mapping, df_clean,
                   datasets, files, results, error, arg>>

\* one pass of the loop of upload_multiple_sheets: results[sheet_name] = ...
UploadPass ==
    /\ pc = "loop"
    /\ Len(results) < Len(arg.datasets)
    /\ LET item == arg.datasets[Len(results) + 1]
           r == UploadIteration([sheets |-> sheets, calls |-> calls], item,
                                arg.overwrite, arg.faults[item.name])
       IN /\ sheets' = r.st.sheets
          /\ calls' = r.st.calls
          /\ IF r.raised THEN pc' = "raised" /\ results' = results
             ELSE /\ pc' = "loop"
                  /\ results' = Append(results, [sheet |-> item.name, success |-> r.success])
    /\ UNCHANGED <<csv_exists, csv, skip_upload, df_raw, mapping, df_clean,
                   datasets, files, error, arg, ret>>

\* return results
UploadReturn ==
    /\ pc = "loop"
    /\ Len(results) = Len(arg.datasets)
    /\ pc' = "returned_many"
    /\ UNCHANGED <<sheets, calls, csv_exists, csv, skip_upload, df_raw, mapping, df_clean,
                   datasets, files, results, error, arg, ret>>

NextSheets ==
    \/ CallUploadOne
    \/ UploadPass
    \/ UploadReturn

SpecSheets == InitSheets /\ [][NextSheets]_vars

(***************************************************************************)
(* Properties of the partition (filter_transactions within main)           *)
(***************************************************************************)
\* filter_transactions has just returned
Filtered == pc = "save"

\* clean_dataframe has just returned and main has tested its result
Cleaned == pc = "filter" \/ (pc = "exit" /\ error = "No valid data after cleaning")

SameTransaction(a, b) ==
    /\ a.Date = b.Date
    /\ a.Amount = b.Amount
    /\ a.Details = b.Details
    /\ a.Category = b.Category

Views == {"incoming", "outgoing", "ebay_outgoing"}

\* C1: the Master_Row values of master are 2, 3, ..., len(master)+1 in the
\* row order of the cleaned table, whatever index that table carried.
C1_MasterRowSequential ==
    Filtered =>
        LET M == datasets.master.rows
        IN /\ Len(M) = Len(df_clean.rows)
           /\ \A k \in 1..Len(M) :
                 /\ M[k].Master_Row = k + 1
                 /\ M[k].Date = df_clean.rows[k].Date
                 /\ M[k].Amount = df_clean.rows[k].Amount
                 /\ M[k].Details = df_clean.rows[k].Details

\* a master of two rows or more cut from a table whose index has a gap
C1_Witness ==
    /\ Filtered
    /\ Len(datasets.master.rows) >= 2
    /\ \E k \in 1..Len(df_clean.rows) : df_clean.rows[k].idx # k - 1

\* src reads "=Master!A" followed by the decimal numeral of n
IsMasterRef(src, n) ==
    /\ Len(src) > 9
    /\ SubSeq(src, 1, 9) = "=Master!A"
    /\ LET d == SubSeq(src, 10, Len(src))
       IN AllDigits(d) /\ Char(d, 1) # "0" /\ IntOf(d) = n

\* C2: every row of the three filtered views has Source "=Master!A<its
\* Master_Row>", that Master_Row is the row of master holding the same
\* transaction, and master has no Source.
C2_SourceReference ==
    Filtered =>
        LET M == datasets.master.rows
        IN /\ \A v \in Views : \A j \in 1..Len(datasets[v].rows) :
                 LET r == datasets[v].rows[j]
                     hits == {k \in 1..Len(M) : M[k].Master_Row = r.Master_Row}
                 IN /\ "Source" \in DOMAIN r
                    /\ IsMasterRef(r.Source, r.Master_Row)
                    /\ Cardinality(hits) = 1
                    /\ \A k \in hits : SameTransaction(r, M[k])
           /\ \A k \in 1..Len(M) : "Source" \notin DOMAIN M[k]
           /\ \A i \in 1..Len(datasets.master.cols) : datasets.master.cols[i] # "Source"

\* all three views are populated and one reference is beyond the first row
C2_Witness ==
    /\ Filtered
    /\ \A v \in Views : Len(datasets[v].rows) >= 1
    /\ \E j \in 1..Len(datasets.incoming.rows) : datasets.incoming.rows[j].Source = "=Master!A3"

\* the rows of view are exactly the rows of master at the positions ks
HoldsExactly(view, ks) ==
    LET M == datasets.master.rows
    IN /\ Len(view) = Cardinality(ks)
       /\ \A j \in 1..Len(view) :
             \E k \in ks : view[j].Master_Row = M[k].Master_Row /\ SameTransaction(view[j], M[k])
       /\ \A k \in ks :
             \E j \in 1..Len(view) : view[j].Master_Row = M[k].Master_Row
       /\ \A i, j \in 1..Len(view) : i < j => view[i].Master_Row < view[j].Master_Row

\* C3: incoming is exactly the master rows with amount > 0, outgoing exactly
\* those with amount < 0; they are disjoint, a zero amount is in master only,
\* and together they cover master exactly when no amount is zero.
C3_SignPartition ==
    Filtered =>
        LET M == datasets.master.rows
            I == datasets.incoming.rows
            O == datasets.outgoing.rows
            pos == {k \in 1..Len(M) : M[k].Amount.v > 0}
            neg == {k \in 1..Len(M) : M[k].Amount.v < 0}
            zero == {k \in 1..Len(M) : M[k].Amount.v = 0}
        IN /\ \A k \in 1..Len(M) : ~M[k].Amount.nan
           /\ HoldsExactly(I, pos)
           /\ HoldsExactly(O, neg)
           /\ \A i \in 1..Len(I) : \A o \in 1..Len(O) : I[i].Master_Row # O[o].Master_Row
           /\ \A k \in zero : /\ \A i \in 1..Len(I) : I[i].Master_Row # M[k].Master_Row
                              /\ \A o \in 1..Len(O) : O[o].Master_Row # M[k].Master_Row
           /\ (Len(I) + Len(O) = Len(M)) <=> (zero = {})

\* a master with a positive, a negative and a zero amount
C3_Witness ==
    /\ Filtered
    /\ \E k \in 1..Len(datasets.master.rows) : datasets.master.rows[k].Amount.v = 0
    /\ Len(datasets.incoming.rows) >= 1
    /\ Len(datasets.outgoing.rows) >= 1

\* "ebay" occurs in text in any mix of upper and lower case
MentionsEbay(text) ==
    \E i \in 1..(Len(text) - 3) :
        /\ Char(text, i) \in {"e", "E"}
        /\ Char(text, i + 1) \in {"b", "B"}
        /\ Char(text, i + 2) \in {"a", "A"}
        /\ Char(text, i + 3) \in {"y", "Y"}

\* C4: every row of ebay_outgoing is a row of outgoing and mentions ebay;
\* every row of outgoing that mentions ebay is in ebay_outgoing.
C4_EbaySubset ==
    Filtered =>
        LET O == datasets.outgoing.rows
            E == datasets.ebay_outgoing.rows
        IN /\ \A e \in 1..Len(E) :
                 /\ \E o \in 1..Len(O) :
                       O[o].Master_Row = E[e].Master_Row /\ SameTransaction(O[o], E[e])
                 /\ MentionsEbay(E[e].Details)
           /\ \A o \in 1..Len(O) :
                 MentionsEbay(O[o].Details) =>
                    \E e \in 1..Len(E) : E[e].Master_Row = O[o].Master_Row
           /\ \A i, j \in 1..Len(E) : i # j => E[i].Master_Row # E[j].Master_Row

\* an upper-case ebay row in ebay_outgoing, an outgoing row without ebay and
\* an incoming row with ebay
C4_Witness ==
    /\ Filtered
    /\ \E e \in 1..Len(datasets.ebay_outgoing.rows) :
          datasets.ebay_outgoing.rows[e].Details = "EBAY PURCHASE"
    /\ \E o \in 1..Len(datasets.outgoing.rows) :
          ~MentionsEbay(datasets.outgoing.rows[o].Details)
    /\ \E i \in 1..Len(datasets.incoming.rows) :
          MentionsEbay(datasets.incoming.rows[i].Details)

(***************************************************************************)
(* Properties of clean_dataframe within main                               *)
(***************************************************************************)
\* the date of raw row r parses: a date column is mapped and its cell is a date
DateParsed(r) ==
    /\ mapping.date # "" /\ HasCol(df_raw, mapping.date)
    /\ clean_date_column(Cell(df_raw, r, mapping.date)) # NaT

\* the amount cell of raw row r is not unparseable (without a mapped amount
\* column there is no cell to parse and the amount is 0.0)
AmountParsed(r) ==
    (mapping.amount # "" /\ HasCol(df_raw, mapping.amount))
        => ~clean_amount_column(Cell(df_raw, r, mapping.amount)).nan

\* C5: clean_dataframe returns, in their original order, exactly the raw
\* rows whose date and amount both parsed; no returned row has a missing
\* date or amount, and an unparseable cell never ends the run by itself.
C5_DropsUnparsedRows ==
    Cleaned =>
        LET R == df_clean.rows
            kept == {r \in 1..Len(df_raw.rows) : DateParsed(r) /\ AmountParsed(r)}
        IN /\ Len(R) = Cardinality(kept)
           /\ {R[k].idx + 1 : k \in 1..Len(R)} = kept
           /\ \A i, j \in 1..Len(R) : i < j => R[i].idx < R[j].idx
           /\ \A k \in 1..Len(R) : R[k].Date # NaT /\ ~R[k].Amount.nan
           /\ (pc = "exit") <=> (kept = {})

\* one row lost to its date, one to its amount, one kept
C5_Witness ==
    /\ Cleaned
    /\ Len(df_clean.rows) = 1
    /\ \E r \in 1..Len(df_raw.rows) : ~DateParsed(r) /\ AmountParsed(r)
    /\ \E r \in 1..Len(df_raw.rows) : DateParsed(r) /\ ~AmountParsed(r)

(***************************************************************************)
(* Properties of main                                                      *)
(***************************************************************************)
\* ask_column_mapping has returned
\* ask_column_mapping has returned and the run was not interrupted
Mapped ==
    \/ pc \in {"clean", "filter", "save", "auth", "upload", "done"}
    \/ pc = "exit" /\ error \in {"Amount column is required", "No valid data after cleaning"}

\* C6: when the mapping step resolves no amount column the run ends with the
\* amount error; nothing is cleaned, partitioned, saved or uploaded.
C6_AmountRequired ==
    (Mapped /\ mapping.amount = "") =>
        /\ pc = "exit"
        /\ error = "Amount column is required"
        /\ df_clean = EmptyTable
        /\ datasets = NoDatasets
        /\ files = NoFiles
        /\ results = <<>>

\* a run ended by the amount error although the user typed at a prompt
C6_Witness ==
    /\ pc = "exit"
    /\ error = "Amount column is required"
    /\ mapping.amount = ""
    /\ mapping.category = "Bogus"

\* the messages of the four checks of main that end the run
ValidationErrors ==
    { "CSV file not found", "CSV file is empty or could not be read",
      "Amount column is required", "No valid data after cleaning" }

\* C7: a zero-row cleaned table ends the run with an error before partition
\* and export; a non-empty one never does, and once the files are saved all
\* four are written, empty views included, each with one line per row.
C7_EmptyMasterIsError ==
    /\ (Cleaned /\ Len(df_clean.rows) = 0) =>
          /\ pc = "exit" /\ error = "No valid data after cleaning"
          /\ datasets = NoDatasets /\ files = NoFiles /\ results = <<>>
    /\ (Len(df_clean.rows) > 0) => error # "No valid data after cleaning"
    /\ (pc = "exit" /\ error \in ValidationErrors) =>
          (datasets = NoDatasets /\ files = NoFiles /\ results = <<>>)
    /\ pc \in {"auth", "upload", "done"} =>
          /\ files.master.written /\ files.incoming.written
          /\ files.outgoing.written /\ files.ebay.written
          /\ Len(files.master.lines) = Len(datasets.master.rows)
          /\ Len(files.master.lines) > 0
          /\ Len(files.incoming.lines) = Len(datasets.incoming.rows)
          /\ Len(files.outgoing.lines) = Len(datasets.outgoing.rows)
          /\ Len(files.ebay.lines) = Len(datasets.ebay_outgoing.rows)

\* a finished run whose master has rows and whose three views are empty
C7_Witness ==
    /\ pc = "done"
    /\ Len(datasets.master.rows) > 0
    /\ \A v \in Views : Len(datasets[v].rows) = 0
    /\ files.incoming.written /\ files.ebay.written

\* the input offers no usable category: no column mapped, or all cells empty
NoUsableCategory ==
    \/ mapping.category = ""
    \/ ~HasCol(df_raw, mapping.category)
    \/ \A r \in 1..Len(df_raw.rows) : Cell(df_raw, r, mapping.category) = NaN

\* C8: without a usable category column every row of master carries the
\* category that categorize_transaction gives its details and amount.
C8_AutoCategorized ==
    (Filtered /\ NoUsableCategory) =>
        \A k \in 1..Len(datasets.master.rows) :
            LET m == datasets.master.rows[k]
            IN m.Category = categorize_transaction(m.Details, m.Amount)

(***************************************************************************)
(* Properties of categorize_transaction                                    *)
(***************************************************************************)
Labels == {"eBay", "Income", "Grocery", "Gas", "Utilities", "Dining", "Shopping", "Other"}

\* the keywords the code lists under an expense category
KeywordsOf(label) ==
    LET i == CHOOSE x \in 1..Len(expense_categories) : expense_categories[x].cat = label
    IN expense_categories[i].pats

Mentions(text, pats) == \E i \in 1..Len(pats) : Contains(Lower(text), pats[i])

\* C9: first match wins, on the lower-cased details: ebay, then an income
\* keyword with amount > 0, then Grocery, Gas, Utilities, Dining, Shopping in
\* that order, else Other; the result is one of the eight labels.
C9_RuleOrder ==
    pc = "returned" =>
        LET d == arg.details
            ebay == Contains(Lower(d), "ebay")
            income == arg.amount.v > 0 /\ Mentions(d, income_patterns)
            grocery == Mentions(d, KeywordsOf("Grocery"))
            gas == Mentions(d, KeywordsOf("Gas"))
            utilities == Mentions(d, KeywordsOf("Utilities"))
            dining == Mentions(d, KeywordsOf("Dining"))
            shopping == Mentions(d, KeywordsOf("Shopping"))
        IN /\ ret \in Labels
           /\ (ret = "eBay") <=> ebay
           /\ (ret = "Income") <=> (~ebay /\ income)
           /\ (ret = "Grocery") <=> (~ebay /\ ~income /\ grocery)
           /\ (ret = "Gas") <=> (~ebay /\ ~income /\ ~grocery /\ gas)
           /\ (ret = "Utilities") <=> (~ebay /\ ~income /\ ~grocery /\ ~gas /\ utilities)
           /\ (ret = "Dining") <=>
                 (~ebay /\ ~income /\ ~grocery /\ ~gas /\ ~utilities /\ dining)
           /\ (ret = "Shopping") <=>
                 (~ebay /\ ~income /\ ~grocery /\ ~gas /\ ~utilities /\ ~dining /\ shopping)
           /\ (ret = "Other") <=>
                 (~ebay /\ ~income /\ ~grocery /\ ~gas /\ ~utilities /\ ~dining /\ ~shopping)

\* details with keywords of two expense categories and an income keyword
\* that does not count because the amount is not positive
C9_Witness ==
    /\ pc = "returned"
    /\ arg.details = "refund gas bill"
    /\ arg.amount.v < 0
    /\ ret = "Gas"

(***************************************************************************)
(* Properties of clean_amount_column                                       *)
(***************************************************************************)
\* digits with at most one ".", at least one digit
IsDecimal(x) ==
    /\ \A i \in 1..Len(x) : IsDigit(Char(x, i)) \/ Char(x, i) = "."
    /\ Cardinality({i \in 1..Len(x) : Char(x, i) = "."}) <= 1
    /\ \E i \in 1..Len(x) : IsDigit(Char(x, i))

\* the value of a decimal in hundredths
DecimalValue(x) ==
    LET dots == {i \in 1..Len(x) : Char(x, i) = "."}
        d == IF dots = {} THEN Len(x) + 1 ELSE CHOOSE i \in dots : TRUE
    IN 100 * IntOf(SubSeq(x, 1, d - 1)) + FracVal(SubSeq(x, d + 1, Len(x)))

IsSignedDecimal(t) ==
    \/ IsDecimal(t)
    \/ Len(t) >= 2 /\ Char(t, 1) \in {"-", "+"} /\ IsDecimal(SubSeq(t, 2, Len(t)))

\* C10: after removal of the currency symbols and commas, "(x)" and "x-"
\* give -x for a number x, a plain signed decimal gives its value, and a cell
\* that is no decimal number after the rewrites gives missing.
C10_AmountForms ==
    pc = "returned" =>
        LET t == RemoveCurrency(arg)
            n == Len(t)
        IN /\ (n >= 3 /\ Char(t, 1) = "(" /\ Char(t, n) = ")" /\ IsDecimal(SubSeq(t, 2, n - 1)))
                 => ret = Num(0 - DecimalValue(SubSeq(t, 2, n - 1)))
           /\ (n >= 2 /\ Char(t, n) = "-" /\ IsDecimal(SubSeq(t, 1, n - 1)))
                 => ret = Num(0 - DecimalValue(SubSeq(t, 1, n - 1)))
           /\ IsDecimal(t) => ret = Num(DecimalValue(t))
           /\ (n >= 2 /\ Char(t, 1) = "+" /\ IsDecimal(SubSeq(t, 2, n)))
                 => ret = Num(DecimalValue(SubSeq(t, 2, n)))
           /\ (n >= 2 /\ Char(t, 1) = "-" /\ IsDecimal(SubSeq(t, 2, n)))
                 => ret = Num(0 - DecimalValue(SubSeq(t, 2, n)))
           /\ ~IsSignedDecimal(TrailingMinusRewrite(ParenRewrite(t))) => ret.nan

(***************************************************************************)
(* Properties of the column mapping                                        *)
(***************************************************************************)
\* the k-th keyword of the field occurs in the lower-cased name of column j
Occurs(k, j) == Contains(Lower(arg.columns[j]), column_patterns[arg.field][k])

OccurringTerms ==
    {k \in 1..Len(column_patterns[arg.field]) : \E j \in 1..Len(arg.columns) : Occurs(k, j)}

\* C11: find_default_column returns the first column, in table order, whose
\* lower-cased name contains the highest-priority keyword occurring in any
\* column name; it returns "" when no keyword occurs in any name; a non-empty
\* result is one of the given column names.
C11_DefaultColumn ==
    (pc = "returned" /\ arg \in [columns : ColumnsPool, field : Fields]) =>
        /\ (OccurringTerms = {}) => ret = ""
        /\ (OccurringTerms # {}) =>
              \E k \in OccurringTerms, j \in 1..Len(arg.columns) :
                 /\ \A m \in OccurringTerms : k <= m
                 /\ Occurs(k, j)
                 /\ \A i \in 1..(j - 1) : ~Occurs(k, i)
                 /\ ret = arg.columns[j]
        /\ (ret # "") => \E j \in 1..Len(arg.columns) : ret = arg.columns[j]

\* an earlier column holds a lower-priority keyword and a later column the
\* highest-priority one; the later column is returned
C11_Witness ==
    /\ pc = "returned"
    /\ arg \in [columns : ColumnsPool, field : Fields]
    /\ \E j \in 1..Len(arg.columns), i \in 1..Len(arg.columns) :
          /\ i < j
          /\ ret = arg.columns[j]
          /\ ret # arg.columns[i]
          /\ \E k \in 1..Len(column_patterns[arg.field]) : Occurs(k, i)

\* C12: after the mapping step each of the four mapped values is empty or
\* the name of a column of the input table, overrides included.
C12_MappingNamesColumns ==
    Mapped => \A f \in Fields : mapping[f] = "" \/ HasCol(df_raw, mapping[f])

AskReturned ==
    pc = "returned" /\ arg \in [cols : HeaderCols, vals : [Fields -> EntryPool]]

\* C13: per field, an entry that is non-empty after trimming replaces the
\* inferred column and an empty one keeps the inferred default; the entry of
\* one field never changes the mapping of another field.
C13_OverridePerField ==
    AskReturned =>
        \A f \in Fields :
            /\ (Strip(arg.vals[f]) # "") => ret[f] = Strip(arg.vals[f])
            /\ (Strip(arg.vals[f]) = "") =>
                  ret[f] = find_default_column(arg.cols, column_patterns[f])
            /\ \A g \in Fields \ {f}, e \in EntryPool :
                  ask_column_mapping([cols |-> arg.cols, rows |-> <<>>],
                                     [arg.vals EXCEPT ![g] = e])[f] = ret[f]

\* one prompt answered with a name, one with blanks, the others with Enter:
\* the named field is replaced, the blank one keeps a non-empty default
C13_Witness ==
    /\ AskReturned
    /\ arg.vals.amount = "Memo" /\ ret.amount = "Memo"
    /\ arg.vals.date = "  " /\ ret.date = "Posted"
    /\ arg.vals.description = "" /\ ret.description = "Memo"
    /\ arg.vals.category = " Amount " /\ ret.category = "Amount"

(***************************************************************************)
(* Properties of the cleaned table                                         *)
(***************************************************************************)
\* the auxiliary columns of the raw table, in the priority order of the list
AuxiliaryPresent ==
    SelectSeq(note_candidates, LAMBDA c : HasCol(df_raw, c))

\* C14: each cleaned row's details are the description (empty when the column
\* is absent or the cell missing), a single space and the value of the first
\* present auxiliary field, trimmed; no second auxiliary field is merged and
\* no field's text is merged twice.
C14_CombinedDetails ==
    (pc = "filter") =>
        \A k \in 1..Len(df_clean.rows) :
            LET r    == df_clean.rows[k].idx + 1
                desc == IF HasCol(df_raw, mapping.description)
                        THEN FillNa(Cell(df_raw, r, mapping.description), "")
                        ELSE ""
            IN IF Len(AuxiliaryPresent) = 0
               THEN df_clean.rows[k].Details = Strip(desc)
               ELSE /\ df_clean.rows[k].Details =
                          Strip(desc \o " " \o FillNa(Cell(df_raw, r, AuxiliaryPresent[1]), ""))
                    /\ AuxiliaryPresent[1] # mapping.description

(***************************************************************************)
(* Properties of the four sets and of what is exported from them           *)
(***************************************************************************)
HasColumns(df, names) == \A c \in names : HasCol(df, c)

\* the filter of a view, on a row of master
Selects(v, row) ==
    IF v = "incoming" THEN row.Amount.v > 0
    ELSE IF v = "outgoing" THEN row.Amount.v < 0
    ELSE row.Amount.v < 0 /\ MentionsEbay(row.Details)

\* C15: filter_transactions returns all four sets; a filter matching no row
\* yields an empty set; each of the three filtered sets, empty or not, has
\* the columns Date, Amount, Details, Category and Source.
C15_FourSets ==
    Filtered =>
        /\ DOMAIN datasets = {"master", "incoming", "outgoing", "ebay_outgoing"}
        /\ HasColumns(datasets.master, {"Date", "Amount", "Details", "Category"})
        /\ \A v \in Views :
              /\ (\A k \in 1..Len(datasets.master.rows) :
                     ~Selects(v, datasets.master.rows[k])) => datasets[v].rows = <<>>
              /\ HasColumns(datasets[v], {"Date", "Amount", "Details", "Category", "Source"})

(***************************************************************************)
(* Properties of the uploader                                              *)
(***************************************************************************)
CallsOn(name) == SelectSeq(calls, LAMBDA c : c.sheet = name)

\* the calls on one sheet that create it, clear it or write to it
Touches(name) ==
    SelectSeq(calls, LAMBDA c : c.sheet = name /\ c.op \in {"add_worksheet", "clear", "update"})

\* the sheet holds the header row, then the rows of df, and nothing else
HoldsTable(name, df) ==
    /\ sheets[name].exists
    /\ Len(sheets[name].cells) = Len(df.rows) + 1
    /\ sheets[name].cells[1] = df.cols
    /\ \A k \in 1..Len(df.rows) :
          /\ Len(sheets[name].cells[k + 1]) = Len(df.cols)
          /\ \A c \in 1..Len(df.cols) :
                sheets[name].cells[k + 1][c] = CellStr(df.cols[c], df.rows[k][df.cols[c]])

\* C19: with a non-empty table upload_dataframe_to_sheet creates the sheet if
\* it is absent and clears it otherwise, whatever the overwrite flag; after a
\* successful upload the sheet holds exactly the header row and the table's
\* rows, nothing of its previous content; with an empty table it returns
\* False without creating, clearing or writing any sheet.
C19_UploadOneSheet ==
    (pc = "returned") =>
        LET name == arg.datasets[1].name
            df   == arg.datasets[1].df
            was  == arg.remote[name]
        IN /\ \A other \in DOMAIN sheets : other # name => sheets[other] = arg.remote[other]
           /\ (Len(df.rows) = 0) =>
                 ret = FALSE /\ sheets = arg.remote /\ Len(Touches(name)) = 0
           /\ (Len(df.rows) > 0 /\ arg.faults[name] # "open_by_key") =>
                 /\ Len(Touches(name)) > 0
                 /\ Touches(name)[1].op = (IF was.exists THEN "clear" ELSE "add_worksheet")
                 /\ (arg.faults[name] \notin {"clear", "add_worksheet"}) =>
                       (sheets[name].exists /\ (ret = TRUE \/ sheets[name].cells = <<>>))
           /\ (Len(df.rows) > 0 /\ ret = TRUE) => HoldsTable(name, df)

\* a successful upload with overwrite False onto a sheet that had content
C19_Witness ==
    /\ pc = "returned"
    /\ ret = TRUE
    /\ ~arg.overwrite
    /\ arg.remote["Master"] = OldSheet
    /\ Len(arg.datasets[1].df.rows) = MaxSheetRows
    /\ HoldsTable("Master", arg.datasets[1].df)

\* position of the dataset of a sheet title in the dict handed over
PassOf(name) == CHOOSE i \in 1..Len(arg.datasets) : arg.datasets[i].name = name

\* C20: upload_multiple_sheets takes the datasets in the given order and
\* returns exactly one entry per dataset: True only if the sheet's data was
\* written, False for an empty dataset (skipped without touching the
\* spreadsheet) or a failed upload; a failure on one sheet neither stops the
\* remaining sheets from being attempted nor escapes to the caller.
C20_UploadManySheets ==
    /\ pc # "raised"
    /\ (pc = "returned_many") =>
          /\ Len(results) = Len(arg.datasets)
          /\ \A i \in 1..Len(results) :
                LET name == arg.datasets[i].name
                    df   == arg.datasets[i].df
                IN /\ results[i].sheet = name
                   /\ results[i].success \in BOOLEAN
                   /\ results[i].success => HoldsTable(name, df)
                   /\ (Len(df.rows) = 0) =>
                         /\ ~results[i].success
                         /\ Len(CallsOn(name)) = 0
                         /\ sheets[name] = arg.remote[name]
                   /\ (Len(df.rows) > 0) =>
                         /\ Len(CallsOn(name)) > 0
                         /\ results[i].success <=> (Len(Touches(name)) > 0
                                                    /\ Touches(name)[Len(Touches(name))].op = "update"
                                                    /\ arg.faults[name] # "update")
          /\ \A a, b \in 1..Len(calls) :
                a < b => PassOf(calls[a].sheet) <= PassOf(calls[b].sheet)

\* the first sheet fails, the second is still uploaded
C20_Witness ==
    /\ pc = "returned_many"
    /\ Len(results) = 2
    /\ ~results[1].success /\ Len(arg.datasets[1].df.rows) > 0
    /\ results[2].success
    /\ HoldsTable(results[2].sheet, arg.datasets[2].df)

(***************************************************************************)
(* Properties of the exports and of the order of the stages of main        *)
(***************************************************************************)
InHeader(header, c) == \E i \in 1..Len(header) : header[i] = c

FileOf(name) ==
    IF name = "Master" THEN files.master
    ELSE IF name = "Incoming" THEN files.incoming
    ELSE IF name = "Outgoing" THEN files.outgoing
    ELSE files.ebay

\* the CSV files written so far omit Master_Row; those of the views that
\* have rows carry Source
CsvOmitsMasterRow ==
    \A i \in 1..Len(SheetNames) :
        LET file == FileOf(SheetNames[i])
        IN file.written =>
              /\ ~InHeader(file.header, "Master_Row")
              /\ (i > 1 /\ Len(file.lines) > 0) => InHeader(file.header, "Source")

\* C16 as stated: every artifact written from the four sets, the CSV files
\* and the uploaded sheets alike, omits Master_Row, and those of the filtered
\* sets keep Source.
C16_ExportsOmitMasterRow ==
    /\ CsvOmitsMasterRow
    /\ (pc = "done") =>
          \A i \in 1..Len(results) :
              results[i].success =>
                 /\ ~InHeader(sheets[results[i].sheet].cells[1], "Master_Row")
                 /\ (results[i].sheet # "Master") =>
                       InHeader(sheets[results[i].sheet].cells[1], "Source")

\* C16, amended: each CSV file has the columns of its set except Master_Row;
\* an uploaded sheet has every column of its set in its header row,
\* Master_Row included; Source, where the set has it, is in both.
C16_CsvOmitsSheetsKeepMasterRow ==
    /\ \A i \in 1..Len(SheetNames) :
          LET file == FileOf(SheetNames[i])
              cols == SheetData(datasets, SheetNames[i]).cols
          IN file.written =>
                /\ ~InHeader(file.header, "Master_Row")
                /\ \A c \in 1..Len(cols) :
                      cols[c] # "Master_Row" => InHeader(file.header, cols[c])
                /\ (i > 1 /\ Len(file.lines) > 0) => InHeader(file.header, "Source")
    /\ (pc = "done") =>
          \A i \in 1..Len(results) :
              results[i].success =>
                 LET header == sheets[results[i].sheet].cells[1]
                 IN /\ header = SheetData(datasets, results[i].sheet).cols
                    /\ InHeader(header, "Master_Row")
                    /\ (results[i].sheet # "Master") => InHeader(header, "Source")

\* Incoming has been saved and uploaded: the file without Master_Row, the
\* sheet with it, both with Source
C16_Witness ==
    /\ pc = "done"
    /\ \E i \in 1..Len(results) : results[i].sheet = "Incoming" /\ results[i].success
    /\ files.incoming.written /\ Len(files.incoming.lines) > 0
    /\ ~InHeader(files.incoming.header, "Master_Row")
    /\ InHeader(files.incoming.header, "Source")
    /\ InHeader(sheets["Incoming"].cells[1], "Master_Row")
    /\ InHeader(sheets["Incoming"].cells[1], "Source")

AllFilesWritten ==
    files.master.written /\ files.incoming.written /\ files.outgoing.written /\ files.ebay.written

\* C17: nothing is persisted before mapping, cleaning and partitioning have
\* completed: a run that stops earlier (a failed check, or an interruption or
\* exception in those stages) has written no file and uploaded no sheet; and
\* no call goes to the spreadsheet before the four CSV files are written.
C17_NoOutputBeforePartition ==
    /\ (files # NoFiles \/ calls # <<>> \/ results # <<>>) =>
          /\ mapping.amount # ""
          /\ Len(df_clean.rows) > 0
          /\ datasets # NoDatasets
          /\ Len(datasets.master.rows) = Len(df_clean.rows)
    /\ (pc = "exit" /\ (error \in ValidationErrors \/ datasets = NoDatasets)) =>
          (files = NoFiles /\ calls = <<>> /\ results = <<>>)
    /\ (pc \in {"start", "load", "map", "clean", "filter", "save"}) =>
          (files = NoFiles /\ calls = <<>> /\ results = <<>>)
    /\ (calls # <<>>) => AllFilesWritten

\* a run interrupted after cleaning, during the partition
C17_Witness ==
    /\ pc = "exit"
    /\ error = "Operation cancelled by user"
    /\ Len(df_clean.rows) > 0
    /\ datasets = NoDatasets
    /\ files = NoFiles /\ calls = <<>>

\* C18: when the date mapping is empty or names no column of the input,
\* clean_dataframe returns a zero-row table whatever the rows are, and main
\* ends with the empty-result error without exporting anything.
C18_DateColumnMandatory ==
    (Cleaned \/ pc \in {"save", "auth", "upload", "done"}) =>
        ((mapping.date = "" \/ ~HasCol(df_raw, mapping.date)) =>
            /\ Len(df_clean.rows) = 0
            /\ pc = "exit" /\ error = "No valid data after cleaning"
            /\ datasets = NoDatasets /\ files = NoFiles /\ calls = <<>>)

\* a full table with an amount column and a typed date column that the
\* input does not have
C18_Witness ==
    /\ pc = "exit" /\ error = "No valid data after cleaning"
    /\ mapping.date = "Bogus"
    /\ HasCol(df_raw, mapping.amount)
    /\ Len(df_raw.rows) = MaxRows
    /\ \A r \in 1..Len(df_raw.rows) : Cell(df_raw, r, "Date") = "01/15/2024"

====
